---- MODULE Spec2Model ----
(***************************************************************************)
(* Model of assets/animations.js: the storefront theme's client-side       *)
(* enhancement modules (header scroll, mobile menu, fade-in observer,      *)
(* parallax, smooth scroll, newsletter form, lazy images) and the startup  *)
(* routine initializeModules that instantiates them on DOM ready and again *)
(* on every shopify:section:load event.                                    *)
(***************************************************************************)
EXTENDS Integers, Sequences, FiniteSets, TLC

VARIABLES
    env,            \* browser capabilities: hasIO, hasMatchMedia, reducedMotion, nativeLazy
    dom,            \* the document: parent, tag and class list of every node
    ready,          \* the DOM-ready call of initializeModules has run
    inits,          \* number of initializeModules calls so far
    lastInit,       \* what the last initializeModules call did
    scrollY,        \* window.scrollY
    headerHidden,   \* header.classList contains 'site-header--hidden'
    headers,        \* the HeaderScroll instances, in construction order
    parallaxes,     \* the ParallaxEffect instances
    transform,      \* style.transform written by updateParallax, per target node
    rafQueue,       \* requestAnimationFrame callbacks waiting for the next frame
    running,        \* callbacks of the frame being run, not yet called
    frameRuns,      \* handler runs in the current (or last) frame
    lastHandled,    \* the last handleScroll run: its instance, and whether it read a position above the recorded one
    scrollDir,      \* direction of the last scroll event
    menus,          \* the MobileMenu instances
    menuDom,        \* overlay / toggle / body state the menu writes
    lastMenuCall,   \* last openMenu / closeMenu executed
    fades,          \* the FadeInObserver instances
    timers,         \* pending setTimeout callbacks per element
    visible,        \* element.classList contains 'visible'
    scheduled,      \* number of setTimeout(add 'visible') scheduled per element
    addCalls,       \* number of classList.add('visible') executed per element
    reported,       \* element was reported intersecting to some observer
    smooths,        \* the SmoothScroll instances
    newsletters,    \* the NewsletterForm instances
    lazies,         \* the LazyLoadImages instances
    message,        \* the newsletter form's message container: text and class list
    inputFocused,   \* the newsletter form's email input has the focus
    lastSubmit,     \* the last submit event: input value, blocked or not, message before it
    imgs,           \* src, srcset, data-src and data-srcset of every image
    lastLoad,       \* the last lazy-image observer callback that loaded an image
    staggerResult,  \* last getStaggerDelay call: element and value
    email,          \* the string handed to validateEmail
    emailResult     \* last validateEmail result

scrollVars == <<scrollY, headerHidden, headers, parallaxes, transform, rafQueue,
                running, frameRuns, lastHandled, scrollDir>>
menuVars   == <<menus, menuDom, lastMenuCall>>
fadeVars   == <<fades, timers, visible, scheduled, addCalls, reported>>
formVars   == <<message, inputFocused, lastSubmit>>
imageVars  == <<imgs, lastLoad>>
otherVars  == <<smooths, newsletters, lazies, formVars, imageVars>>
initVars   == <<ready, inits, lastInit>>
pureVars   == <<staggerResult, email, emailResult>>
vars == <<env, dom, initVars, scrollVars, menuVars, fadeVars, otherVars, pureVars>>

(***************************************************************************)
(* Bounds of the model                                                     *)
(***************************************************************************)
MaxInits == 2        \* initializeModules calls: DOM ready plus section loads
MaxScrollIdx == 4    \* scroll positions are 0 .. MaxScrollIdx * ScrollStep
ScrollStep == 50
GridItems == 3       \* direct children of the grid container (stagger inputs)
MaxEmailLen == 5     \* length of the enumerated email strings

(***************************************************************************)
(* Program constants                                                       *)
(***************************************************************************)
ScrollThreshold == 100
StaggerStep == 100

Max(a, b) == IF a >= b THEN a ELSE b
Min(S) == CHOOSE x \in S : \A y \in S : x <= y

(***************************************************************************)
(* The DOM.  Node 0 is the document (null as a result); node ids follow    *)
(* document order.                                                         *)
(***************************************************************************)
Document == 0
Nodes == DOMAIN dom.parent

RECURSIVE Chain(_)
\* n, its parent, its grandparent, ... up to the root element
Chain(n) == IF n = Document THEN <<>> ELSE <<n>> \o Chain(dom.parent[n])

ChainSet(n) == {Chain(n)[i] : i \in 1..Len(Chain(n))}

\* element.closest(selector): the nearest of n and its ancestors in set S, else null
closest(n, S) ==
    LET c == Chain(n)
        hits == {i \in 1..Len(c) : c[i] \in S}
    IN IF hits = {} THEN Document ELSE c[Min(hits)]

RECURSIVE SortedSeq(_)
SortedSeq(S) == IF S = {} THEN <<>> ELSE <<Min(S)>> \o SortedSeq(S \ {Min(S)})

\* parent.children, in document order
children(p) == SortedSeq({n \in Nodes : dom.parent[n] = p})

\* Array.prototype.indexOf: zero-based, -1 when absent
indexOf(s, x) ==
    LET hits == {i \in 1..Len(s) : s[i] = x}
    IN IF hits = {} THEN -1 ELSE Min(hits) - 1

\* scope.querySelectorAll(.cls): the matching proper descendants of scope
querySelectorAll(scope, c) ==
    {n \in Nodes : /\ c \in dom.cls[n]
                   /\ n # scope
                   /\ (scope = Document \/ scope \in ChainSet(n))}

WithTag(t) == {n \in Nodes : dom.tag[n] = t}
GridSelectors == {"ryssa-grid__items", "lookbook-grid", "product-grid__items",
                  "site-footer__grid"}
GridContainers == {n \in Nodes : dom.cls[n] \cap GridSelectors # {}}

(***************************************************************************)
(* FadeInObserver.getStaggerDelay                                          *)
(***************************************************************************)
\* element.closest('article') || element.closest('div') || element
Wrapper(element) ==
    IF closest(element, WithTag("article")) # Document
    THEN closest(element, WithTag("article"))
    ELSE IF closest(element, WithTag("div")) # Document
         THEN closest(element, WithTag("div"))
         ELSE element

getStaggerDelay(element) ==
    LET parent == closest(element, GridContainers)
    IN IF parent # Document
       THEN LET siblings == children(parent)
                index == indexOf(siblings, Wrapper(element))
            IN Max(0, index * StaggerStep)
       ELSE 0

(***************************************************************************)
(* NewsletterForm.validateEmail: the regular expression                    *)
(*   /^[^\s@]+@[^\s@]+\.[^\s@]+$/                                          *)
(* run as the automaton it denotes.  A string is a sequence of characters. *)
(***************************************************************************)
Whitespace == {" ", "\t", "\n"}
\* the character class [^\s@]
NotSpaceAt(c) == c \notin Whitespace /\ c # "@"

\* mutant: the last class written [^\s]: an '@' is let into the third part
ReStepLooseTail(q, c) ==
    CASE q = 0 -> IF NotSpaceAt(c) THEN {1} ELSE {}
      [] q = 1 -> (IF NotSpaceAt(c) THEN {1} ELSE {}) \cup (IF c = "@" THEN {2} ELSE {})
      [] q = 2 -> IF NotSpaceAt(c) THEN {3} ELSE {}
      [] q = 3 -> (IF NotSpaceAt(c) THEN {3} ELSE {}) \cup (IF c = "." THEN {4} ELSE {})
      [] q = 4 -> IF c \notin Whitespace THEN {5} ELSE {}
      [] q = 5 -> IF c \notin Whitespace THEN {5} ELSE {}

\* The positions of the pattern: 0 at ^, 1 inside the first [^\s@]+, 2 after
\* '@', 3 inside the second [^\s@]+, 4 after '\.', 5 inside the third [^\s@]+.
ReStep(q, c) ==
    CASE q = 0 -> IF NotSpaceAt(c) THEN {1} ELSE {}
      [] q = 1 -> (IF NotSpaceAt(c) THEN {1} ELSE {}) \cup (IF c = "@" THEN {2} ELSE {})
      [] q = 2 -> IF NotSpaceAt(c) THEN {3} ELSE {}
      [] q = 3 -> (IF NotSpaceAt(c) THEN {3} ELSE {}) \cup (IF c = "." THEN {4} ELSE {})
      [] q = 4 -> IF NotSpaceAt(c) THEN {5} ELSE {}
      [] q = 5 -> IF NotSpaceAt(c) THEN {5} ELSE {}

RECURSIVE ReRun(_, _)
\* the pattern positions reachable after reading s from the position set Q
ReRun(Q, s) ==
    IF s = <<>> THEN Q
    ELSE ReRun(UNION {ReStep(q, Head(s)) : q \in Q}, Tail(s))

\* re.test(email): the whole string matches, ^ to $
validateEmail(s) == 5 \in ReRun({0}, s)

(***************************************************************************)
(* The page the modules run on.  Two sections (the targets a section load  *)
(* can carry): 1 holds the header, the menu toggle and the navigation      *)
(* overlay with one link, 6 a grid with two items, a parallax element with *)
(* a lazy image, and a footer with the newsletter form (an email input and *)
(* a message container inside it), a fade-in paragraph and a second lazy   *)
(* image.                                                                  *)
(* `missing` are the nodes that do not carry their class on this page.     *)
(***************************************************************************)
PageParent == <<0, 1, 2, 1, 4, 0, 6, 7, 7, 9, 6, 11, 6, 13, 13, 14, 14, 13>>
PageTag == <<"div", "header", "button", "div", "a", "section", "div", "article",
             "article", "h3", "div", "img", "footer", "form", "p", "input", "div", "img">>
PageCls == << {}, {"site-header"}, {"site-header__menu-toggle"},
              {"mobile-nav-overlay"}, {"href#"}, {}, {"lookbook-grid"},
              {"fade-in"}, {}, {"fade-in"}, {"parallax-element"},
              {"loading=lazy"}, {}, {"newsletter-form"}, {"fade-in"},
              {"type=email"}, {"newsletter-form__message"}, {"loading=lazy"} >>
PageNodes == 1..Len(PageParent)
Sections == {1, 6}

PageDom(missing) ==
    [parent |-> PageParent,
     tag    |-> PageTag,
     cls    |-> [n \in PageNodes |-> IF n \in missing THEN {} ELSE PageCls[n]]]

(***************************************************************************)
(* The documents getStaggerDelay is tried on: a wrapper (1) around a       *)
(* container (2) with GridItems direct children (3 ..), each holding one   *)
(* nested node; tags and the container's grid class vary.                  *)
(***************************************************************************)
StaggerNodes == 1..(2 + 2 * GridItems)
StaggerParent ==
    [n \in StaggerNodes |->
        IF n = 1 THEN 0
        ELSE IF n = 2 THEN 1
        ELSE IF n <= 2 + GridItems THEN 2
        ELSE n - GridItems]
StaggerDoms ==
    {[parent |-> StaggerParent,
      tag    |-> [n \in StaggerNodes |->
                    IF n = 1 THEN w
                    ELSE IF n = 2 THEN c
                    ELSE IF n <= 2 + GridItems THEN it[n - 2]
                    ELSE ne[n - 2 - GridItems]],
      cls    |-> [n \in StaggerNodes |->
                    IF n = 2 /\ g THEN {"product-grid__items"} ELSE {}]] :
        w \in {"div", "section"}, c \in {"div", "ul"}, g \in BOOLEAN,
        it \in [1..GridItems -> {"article", "div", "li"}],
        ne \in [1..GridItems -> {"article", "div", "h3"}]}

EmailChars == {"a", ".", "@", " "}
\* the strings of section 8 of the specification
SpecEmails == { <<"a", "@", "b", ".", "c", "o", "m">>,
                <<"a", "@", "b">>,
                <<"a", " ", "b", "@", "c", ".", "c", "o", "m">>,
                <<>> }

(***************************************************************************)
(* Initial state: the script has run, no module is constructed yet.        *)
(***************************************************************************)
Envs ==
    [hasIO : BOOLEAN, hasMatchMedia : BOOLEAN, reducedMotion : BOOLEAN,
     nativeLazy : BOOLEAN, scrollbarWidth : {0, 15}]
ModernEnv ==
    [hasIO |-> TRUE, hasMatchMedia |-> TRUE, reducedMotion |-> FALSE,
     nativeLazy |-> TRUE, scrollbarWidth |-> 15]

\* the overlay, toggle and body as the page's markup gives them
ClosedMarkup ==
    [active |-> FALSE, ariaHidden |-> "true", ariaExpanded |-> "false",
     ariaLabel |-> "Open menu", overflow |-> "", paddingRight |-> <<>>,
     focus |-> "page"]
BareMarkup ==
    [active |-> FALSE, ariaHidden |-> "", ariaExpanded |-> "",
     ariaLabel |-> "", overflow |-> "", paddingRight |-> <<>>,
     focus |-> "page"]

ScrollPositions == {k * ScrollStep : k \in 0..MaxScrollIdx}
NoInit == [scope |-> Document, constructed |-> {}, threw |-> "none", logged |-> FALSE]

\* the message container as the markup gives it: empty, or the server's
\* confirmation of an earlier subscription
NoMessage == [text |-> "", cls |-> {}]
PostedMessage == [text |-> "Thanks for subscribing", cls |-> {"visible", "success"}]
ErrorText == "Please enter a valid email address."
NoSubmit == [state |-> "none", value |-> <<>>, before |-> NoMessage]

\* an image's attributes; a deferred image carries its sources in data-src and
\* data-srcset
NoImage == [src |-> "", dataSrc |-> "", srcset |-> "", dataSrcset |-> ""]
DeferredImages ==
    {[src |-> "placeholder.gif", dataSrc |-> d, srcset |-> "", dataSrcset |-> ds] :
        d \in {"", "photo.jpg"}, ds \in {"", "photo.jpg 2x"}}
DeferredImage ==
    [src |-> "placeholder.gif", dataSrc |-> "photo.jpg", srcset |-> "",
     dataSrcset |-> "photo.jpg 2x"]
NoLoad == [inst |-> 0, target |-> Document, before |-> NoImage]

InitFull(E, D, M, Y, S, I, G) ==
    /\ env \in E
    /\ dom \in D
    /\ menuDom \in M
    /\ scrollY \in Y
    /\ email \in S
    /\ ready = FALSE
    /\ inits = 0
    /\ lastInit = NoInit
    /\ headerHidden = FALSE
    /\ headers = <<>>
    /\ parallaxes = <<>>
    /\ transform = [n \in Nodes |-> <<>>]
    /\ rafQueue = <<>>
    /\ running = <<>>
    /\ frameRuns = [header |-> 0, parallax |-> 0]
    /\ lastHandled = [inst |-> 0, movedDown |-> FALSE]
    /\ scrollDir = "none"
    /\ menus = <<>>
    /\ lastMenuCall = [op |-> "none", inst |-> 0]
    /\ fades = <<>>
    /\ timers = [n \in Nodes |-> 0]
    /\ visible = [n \in Nodes |-> FALSE]
    /\ scheduled = [n \in Nodes |-> 0]
    /\ addCalls = [n \in Nodes |-> 0]
    /\ reported = [n \in Nodes |-> FALSE]
    /\ smooths = <<>>
    /\ newsletters = <<>>
    /\ lazies = <<>>
    /\ message \in G
    /\ inputFocused = FALSE
    /\ lastSubmit = NoSubmit
    /\ imgs \in {[n \in Nodes |-> IF dom.tag[n] = "img" THEN r ELSE NoImage] : r \in I}
    /\ lastLoad = NoLoad
    /\ staggerResult = [element |-> Document, delay |-> 0]
    /\ emailResult = "none"

InitWith(E, D, M, Y, S) == InitFull(E, D, M, Y, S, {DeferredImage}, {NoMessage})

Init == InitWith({ModernEnv}, {PageDom({})}, {ClosedMarkup}, {0}, {<<>>})

(***************************************************************************)
(* Constructors.  document.querySelector gives the first match or null.    *)
(***************************************************************************)
querySelector(scope, c) ==
    IF querySelectorAll(scope, c) = {} THEN Document
    ELSE Min(querySelectorAll(scope, c))

\* new HeaderScroll(): init() adds the window scroll listener when the header exists
NewHeaderScroll ==
    LET header == querySelector(Document, "site-header")
    IN [header |-> header, lastScrollY |-> scrollY, ticking |-> FALSE,
        listening |-> header # Document]

\* new MobileMenu(): init() binds the listeners when toggle and overlay exist
NewMobileMenu ==
    LET toggle == querySelector(Document, "site-header__menu-toggle")
        overlay == querySelector(Document, "mobile-nav-overlay")
        bound == toggle # Document /\ overlay # Document
    IN [toggle |-> toggle, overlay |-> overlay,
        scrollbarWidth |-> IF bound THEN env.scrollbarWidth ELSE 0,
        isOpen |-> FALSE,
        links |-> IF bound
                  THEN {n \in WithTag("a") : overlay \in ChainSet(n) /\ n # overlay}
                  ELSE {},
        bound |-> bound]

\* new FadeInObserver(scope): observes every .fade-in under scope, or, without
\* IntersectionObserver, marks them all visible at once (fallback)
NewFadeInObserver(scope) ==
    LET elements == querySelectorAll(scope, "fade-in")
    IN [scope |-> scope, elements |-> elements,
        observed |-> IF elements # {} /\ env.hasIO THEN elements ELSE {},
        fallback |-> elements # {} /\ ~env.hasIO]

\* new ParallaxEffect(): init() reads window.matchMedia, which is a TypeError
\* where matchMedia does not exist
ParallaxThrows ==
    querySelectorAll(Document, "parallax-element") # {} /\ ~env.hasMatchMedia
NewParallaxEffect ==
    LET elements == querySelectorAll(Document, "parallax-element")
    IN [elements |-> elements, ticking |-> FALSE,
        listening |-> elements # {} /\ ~env.reducedMotion]

\* new SmoothScroll(): init() is called unconditionally and reads matchMedia
SmoothThrows == ~env.hasMatchMedia
NewSmoothScroll ==
    [header |-> querySelector(Document, "site-header"),
     links |-> IF env.reducedMotion THEN {}
               ELSE querySelectorAll(Document, "href#")]

NewNewsletterForm ==
    [forms |-> querySelectorAll(Document, "newsletter-form")]

\* mutant: data-srcset is left alone
loadImageSrcOnly(img) ==
    IF img.dataSrc # "" THEN [img EXCEPT !.src = img.dataSrc, !.dataSrc = ""] ELSE img

\* loadImage(img): data-src and data-srcset, where set, become src and srcset
loadImage(img) ==
    LET a == IF img.dataSrc # ""
             THEN [img EXCEPT !.src = img.dataSrc, !.dataSrc = ""] ELSE img
    IN IF a.dataSrcset # ""
       THEN [a EXCEPT !.srcset = a.dataSrcset, !.dataSrcset = ""] ELSE a

\* new LazyLoadImages(): with native lazy loading nothing is done; without
\* IntersectionObserver every image is loaded at once (fallback); else observed
NewLazyLoadImages ==
    LET images == querySelectorAll(Document, "loading=lazy")
    IN [images |-> images,
        observed |-> IF ~env.nativeLazy /\ env.hasIO THEN images ELSE {},
        fallback |-> images # {} /\ ~env.nativeLazy /\ ~env.hasIO]

(***************************************************************************)
(* initializeModules(scope): the seven constructors inside one try block.  *)
(***************************************************************************)
ModuleOrder == <<"HeaderScroll", "MobileMenu", "FadeInObserver", "ParallaxEffect",
                 "SmoothScroll", "NewsletterForm", "LazyLoadImages">>
Modules == {ModuleOrder[i] : i \in 1..Len(ModuleOrder)}

Throws(m) ==
    \/ m = "ParallaxEffect" /\ ParallaxThrows
    \/ m = "SmoothScroll" /\ SmoothThrows

\* position in ModuleOrder of the first constructor that throws (8: none does)
FirstThrow ==
    Min({i \in 1..Len(ModuleOrder) : Throws(ModuleOrder[i])} \cup {Len(ModuleOrder) + 1})

\* the constructors that ran to completion: the try block is left at the first throw
Constructed == {ModuleOrder[i] : i \in 1..(FirstThrow - 1)}

Bump(f, S) == [n \in DOMAIN f |-> IF n \in S THEN f[n] + 1 ELSE f[n]]

initializeModules(scope) ==
    /\ inits < MaxInits
    /\ running = <<>>
    /\ inits' = inits + 1
    /\ lastInit' = [scope |-> scope, constructed |-> Constructed,
                    threw |-> IF FirstThrow <= Len(ModuleOrder)
                              THEN ModuleOrder[FirstThrow] ELSE "none",
                    logged |-> FirstThrow <= Len(ModuleOrder)]
    /\ headers' = Append(headers, NewHeaderScroll)
    /\ menus' = Append(menus, NewMobileMenu)
    /\ fades' = Append(fades, NewFadeInObserver(scope))
    /\ LET f == NewFadeInObserver(scope)
           marked == IF f.fallback THEN f.elements ELSE {}
       IN /\ visible' = [n \in Nodes |-> visible[n] \/ n \in marked]
          /\ addCalls' = Bump(addCalls, marked)
    /\ parallaxes' = IF "ParallaxEffect" \in Constructed
                     THEN Append(parallaxes, NewParallaxEffect) ELSE parallaxes
    /\ smooths' = IF "SmoothScroll" \in Constructed
                  THEN Append(smooths, NewSmoothScroll) ELSE smooths
    /\ newsletters' = IF "NewsletterForm" \in Constructed
                      THEN Append(newsletters, NewNewsletterForm) ELSE newsletters
    /\ lazies' = IF "LazyLoadImages" \in Constructed
                 THEN Append(lazies, NewLazyLoadImages) ELSE lazies
    /\ imgs' = IF "LazyLoadImages" \in Constructed /\ NewLazyLoadImages.fallback
               THEN [n \in Nodes |-> IF n \in NewLazyLoadImages.images
                                     THEN loadImage(imgs[n]) ELSE imgs[n]]
               ELSE imgs
    /\ UNCHANGED <<env, dom, scrollY, headerHidden, transform, rafQueue, running,
                   frameRuns, lastHandled, scrollDir, menuDom, lastMenuCall,
                   timers, scheduled, reported, formVars, lastLoad, pureVars>>

\* DOMContentLoaded (or the script running after it): initializeModules()
DomReady ==
    /\ ~ready
    /\ ready' = TRUE
    /\ initializeModules(Document)

\* document's shopify:section:load listener: initializeModules(event.target)
SectionLoad ==
    /\ ready
    /\ ready' = ready
    /\ \E target \in Sections : initializeModules(target)

(***************************************************************************)
(* Scroll events and animation frames                                      *)
(***************************************************************************)
\* the window's scroll listeners in registration order: each initializeModules
\* call registers its HeaderScroll listener, then its ParallaxEffect listener
ScrollListeners ==
    [k \in 1..(2 * inits) |->
        IF k % 2 = 1 THEN [kind |-> "header", inst |-> (k + 1) \div 2]
        ELSE [kind |-> "parallax", inst |-> k \div 2]]

Listening(c) ==
    IF c.kind = "header" THEN headers[c.inst].listening
    ELSE c.inst <= Len(parallaxes) /\ parallaxes[c.inst].listening

Ticking(c) ==
    IF c.kind = "header" THEN headers[c.inst].ticking
    ELSE parallaxes[c.inst].ticking

\* mutant: the scroll listener asks for an animation frame on every event
RequestsAlways(c) == Listening(c)

\* the scroll listener asks for an animation frame unless its flag is set
Requests(c) == Listening(c) /\ ~Ticking(c)

\* a scroll event: the window is at position y and every scroll listener runs
Scroll(y) ==
    /\ ready
    /\ running = <<>>
    /\ y # scrollY
    /\ scrollY' = y
    /\ scrollDir' = IF y < scrollY THEN "up" ELSE "down"
    /\ rafQueue' = rafQueue \o SelectSeq(ScrollListeners, Requests)
    /\ headers' = [i \in DOMAIN headers |->
                     [headers[i] EXCEPT !.ticking = @ \/ headers[i].listening]]
    /\ parallaxes' = [i \in DOMAIN parallaxes |->
                     [parallaxes[i] EXCEPT !.ticking = @ \/ parallaxes[i].listening]]
    /\ UNCHANGED <<env, dom, initVars, headerHidden, transform, running, frameRuns,
                   lastHandled, menuVars, fadeVars, otherVars, pureVars>>

\* the browser starts an animation frame: the callbacks requested so far are run
FrameStart ==
    /\ rafQueue # <<>>
    /\ running = <<>>
    /\ running' = rafQueue
    /\ rafQueue' = <<>>
    /\ frameRuns' = [header |-> 0, parallax |-> 0]
    /\ UNCHANGED <<env, dom, initVars, scrollY, headerHidden, headers, parallaxes,
                   transform, lastHandled, scrollDir, menuVars, fadeVars, otherVars,
                   pureVars>>

\* mutant: the header is hidden on any downward step, whatever the position
HidesNoThreshold(last) == scrollY > last

\* mutant: the header is hidden past the threshold, whatever the direction
HidesNoDirection(last) == scrollY > ScrollThreshold

\* the condition of handleScroll, with currentScrollY = window.scrollY
Hides(last) == scrollY > last /\ scrollY > ScrollThreshold

\* the frame callback of HeaderScroll i: handleScroll(), then ticking = false
HandleScrollFrame(i) ==
    /\ headerHidden' = Hides(headers[i].lastScrollY)
    /\ headers' = [headers EXCEPT ![i].lastScrollY = scrollY, ![i].ticking = FALSE]
    /\ lastHandled' = [inst |-> i, movedDown |-> scrollY > headers[i].lastScrollY]
    /\ frameRuns' = [frameRuns EXCEPT !.header = @ + 1]
    /\ UNCHANGED <<parallaxes, transform>>

\* page layout of the parallax elements and the window, in px
Layout == [top |-> 120, height |-> 60, viewport |-> 100]
SpeedTenths == 3

\* element.querySelector('img, video, picture') || element
ParallaxTarget(element) ==
    LET media == {n \in WithTag("img") \cup WithTag("video") \cup WithTag("picture") :
                     element \in ChainSet(n) /\ n # element}
    IN IF media = {} THEN element ELSE Min(media)

\* mutant: every element is taken to be in view
InViewAlways(element) == TRUE

\* scrollY + viewportHeight > elementTop && scrollY < elementTop + elementHeight
InView(element) ==
    /\ scrollY + Layout.viewport > Layout.top
    /\ scrollY < Layout.top + Layout.height

\* the frame callback of ParallaxEffect i: updateParallax(), then ticking = false;
\* translateY is kept in tenths of a pixel
UpdateParallaxFrame(i) ==
    /\ transform' =
         [n \in Nodes |->
            IF \E e \in parallaxes[i].elements : InView(e) /\ ParallaxTarget(e) = n
            THEN <<(scrollY - Layout.top) * SpeedTenths>>
            ELSE transform[n]]
    /\ parallaxes' = [parallaxes EXCEPT ![i].ticking = FALSE]
    /\ frameRuns' = [frameRuns EXCEPT !.parallax = @ + 1]
    /\ UNCHANGED <<headerHidden, headers, lastHandled>>

\* the next callback of the running frame is called
RunCallback ==
    /\ running # <<>>
    /\ running' = Tail(running)
    /\ IF Head(running).kind = "header"
       THEN HandleScrollFrame(Head(running).inst)
       ELSE UpdateParallaxFrame(Head(running).inst)
    /\ UNCHANGED <<env, dom, initVars, scrollY, rafQueue, scrollDir, menuVars,
                   fadeVars, otherVars, pureVars>>

(***************************************************************************)
(* Mobile menu.  A menu state M is the instances, the DOM they write and   *)
(* the last method run; the methods are functions on it.                   *)
(***************************************************************************)
MenuState == [menus |-> menus, dom |-> menuDom, last |-> lastMenuCall]

\* mutant: openMenu widens the body padding by the scrollbar width on every call
openMenuAccumulate(M, i) ==
    [menus |-> [M.menus EXCEPT ![i].isOpen = TRUE],
     dom   |-> [active |-> TRUE, ariaHidden |-> "false", ariaExpanded |-> "true",
                ariaLabel |-> "Close menu", overflow |-> "hidden",
                paddingRight |-> M.dom.paddingRight \o <<M.menus[i].scrollbarWidth>>,
                focus |-> IF M.menus[i].links # {} THEN "firstLink" ELSE M.dom.focus],
     last  |-> [op |-> "open", inst |-> i]]

openMenu(M, i) ==
    [menus |-> [M.menus EXCEPT ![i].isOpen = TRUE],
     dom   |-> [active |-> TRUE, ariaHidden |-> "false", ariaExpanded |-> "true",
                ariaLabel |-> "Close menu", overflow |-> "hidden",
                paddingRight |-> <<M.menus[i].scrollbarWidth>>,
                focus |-> IF M.menus[i].links # {} THEN "firstLink" ELSE M.dom.focus],
     last  |-> [op |-> "open", inst |-> i]]

\* mutant: closeMenu leaves the body's overflow as it is
closeMenuKeepsOverflow(M, i) ==
    [menus |-> [M.menus EXCEPT ![i].isOpen = FALSE],
     dom   |-> [M.dom EXCEPT !.active = FALSE, !.ariaHidden = "true",
                             !.ariaExpanded = "false", !.ariaLabel = "Open menu",
                             !.paddingRight = <<>>],
     last  |-> [op |-> "close", inst |-> i]]

closeMenu(M, i) ==
    [menus |-> [M.menus EXCEPT ![i].isOpen = FALSE],
     dom   |-> [M.dom EXCEPT !.active = FALSE, !.ariaHidden = "true",
                             !.ariaExpanded = "false", !.ariaLabel = "Open menu",
                             !.overflow = "", !.paddingRight = <<>>],
     last  |-> [op |-> "close", inst |-> i]]

toggleMenu(M, i) == IF M.menus[i].isOpen THEN closeMenu(M, i) ELSE openMenu(M, i)

\* the document keydown listener of instance i, for e.key === 'Escape'
onEscape(M, i) ==
    IF M.menus[i].isOpen
    THEN [closeMenu(M, i) EXCEPT !.dom.focus = "toggle"]
    ELSE M

RECURSIVE Dispatch(_, _, _, _)
\* an event reaches the listeners of the bound instances i .. n in the order
\* they were registered; what names the listener
Dispatch(M, i, what, node) ==
    IF i > Len(M.menus) THEN M
    ELSE LET after ==
               IF ~M.menus[i].bound THEN M
               ELSE IF what = "toggle" THEN toggleMenu(M, i)
               ELSE IF what = "link"
                    THEN (IF node \in M.menus[i].links THEN closeMenu(M, i) ELSE M)
               ELSE onEscape(M, i)
         IN Dispatch(after, i + 1, what, node)

MenuEvent(what, node) ==
    /\ ready
    /\ running = <<>>
    /\ \E i \in DOMAIN menus : menus[i].bound
    /\ LET M == Dispatch(MenuState, 1, what, node)
       IN /\ menus' = M.menus
          /\ menuDom' = M.dom
          /\ lastMenuCall' = M.last
    /\ UNCHANGED <<env, dom, initVars, scrollVars, fadeVars, otherVars, pureVars>>

\* a click on the menu toggle
ToggleClick == MenuEvent("toggle", Document)

\* a click on a link inside the overlay
LinkClick == \E link \in UNION {menus[i].links : i \in DOMAIN menus} : MenuEvent("link", link)

\* the Escape key is pressed
EscapeKey == MenuEvent("escape", Document)

(***************************************************************************)
(* Fade-in observers                                                       *)
(***************************************************************************)
\* this.observer.unobserve(target)
ObservedAfter(o, target) == fades[o].observed \ {target}

\* observer o's callback gets an entry for target; the code handles the entries
\* of one notification independently of each other
IntersectionCallback(o, target, isIntersecting) ==
    /\ running = <<>>
    /\ target \in fades[o].observed
    /\ IF isIntersecting
       THEN /\ timers' = [timers EXCEPT ![target] = @ + 1]
            /\ scheduled' = [scheduled EXCEPT ![target] = @ + 1]
            /\ reported' = [reported EXCEPT ![target] = TRUE]
            /\ staggerResult' = [element |-> target, delay |-> getStaggerDelay(target)]
            /\ fades' = [fades EXCEPT ![o].observed = ObservedAfter(o, target)]
       ELSE UNCHANGED <<timers, scheduled, reported, staggerResult, fades>>
    /\ UNCHANGED <<env, dom, initVars, scrollVars, menuVars, visible, addCalls,
                   otherVars, email, emailResult>>

Intersection ==
    \E o \in DOMAIN fades : \E target \in fades[o].observed :
        \E isIntersecting \in BOOLEAN : IntersectionCallback(o, target, isIntersecting)

\* mutant: the timeout's callback leaves the class list alone
addVisibleNever(target) == visible

\* entry.target.classList.add('visible')
addVisible(target) == [visible EXCEPT ![target] = TRUE]

\* a timeout set by the callback runs: target.classList.add('visible')
TimerFire ==
    /\ running = <<>>
    /\ \E target \in Nodes :
        /\ timers[target] > 0
        /\ timers' = [timers EXCEPT ![target] = @ - 1]
        /\ visible' = addVisible(target)
        /\ addCalls' = [addCalls EXCEPT ![target] = @ + 1]
    /\ UNCHANGED <<env, dom, initVars, scrollVars, menuVars, fades, scheduled,
                   reported, otherVars, pureVars>>

(***************************************************************************)
(* Lazy images                                                             *)
(***************************************************************************)
\* mutant: the image stays observed
lazyObservedKept(o, target) == lazies[o].observed

\* observer.unobserve(entry.target)
lazyObservedAfter(o, target) == lazies[o].observed \ {target}

\* the observer of LazyLoadImages o gets an entry for target
LazyCallback(o, target, isIntersecting) ==
    /\ running = <<>>
    /\ target \in lazies[o].observed
    /\ IF isIntersecting
       THEN /\ imgs' = [imgs EXCEPT ![target] = loadImage(@)]
            /\ lazies' = [lazies EXCEPT ![o].observed = lazyObservedAfter(o, target)]
            /\ lastLoad' = [inst |-> o, target |-> target, before |-> imgs[target]]
       ELSE UNCHANGED <<imgs, lazies, lastLoad>>
    /\ UNCHANGED <<env, dom, initVars, scrollVars, menuVars, fadeVars, smooths,
                   newsletters, formVars, pureVars>>

LazyIntersection ==
    \E o \in DOMAIN lazies : \E target \in lazies[o].observed :
        \E isIntersecting \in BOOLEAN : LazyCallback(o, target, isIntersecting)

(***************************************************************************)
(* Newsletter forms                                                        *)
(***************************************************************************)
RECURSIVE trimStart(_)
trimStart(s) ==
    IF s # <<>> /\ Head(s) \in Whitespace THEN trimStart(Tail(s)) ELSE s

RECURSIVE trimEnd(_)
trimEnd(s) ==
    IF s # <<>> /\ s[Len(s)] \in Whitespace THEN trimEnd(SubSeq(s, 1, Len(s) - 1)) ELSE s

\* mutant: the value is validated as typed
trimNothing(s) == s

\* input.value.trim()
trim(s) == trimEnd(trimStart(s))

\* classList.add('visible', 'error'), classList.remove('success'), and the text
ShowError(m) ==
    [text |-> ErrorText, cls |-> (m.cls \cup {"visible", "error"}) \ {"success"}]

\* one submit listener of `form`; ev holds what the event and the page look
\* like so far: defaultPrevented, the message container, the input's focus
submitListener(form, ev) ==
    LET input == querySelector(form, "type=email")
        messageContainer == querySelector(form, "newsletter-form__message")
    IN IF input = Document THEN ev
       ELSE IF validateEmail(trim(email)) THEN ev
       ELSE [prevented |-> TRUE,
             message |-> IF messageContainer # Document
                         THEN ShowError(ev.message) ELSE ev.message,
             focused |-> TRUE]

RECURSIVE RunListeners(_, _, _)
\* the form's k submit listeners run one after the other
RunListeners(form, k, ev) ==
    IF k = 0 THEN ev ELSE RunListeners(form, k - 1, submitListener(form, ev))

\* the submit listeners on a form: one per NewsletterForm instance that selected it
SubmitListeners(form) ==
    Cardinality({i \in DOMAIN newsletters : form \in newsletters[i].forms})

\* the values tried in the form's input: the four example strings, bare and
\* with white space around them
FormEmails ==
    SpecEmails \cup {<<" ">> \o e \o <<"\t">> : e \in SpecEmails}
               \cup {e \o <<" ">> : e \in SpecEmails}

\* the user replaces the content of the email input
EditEmail ==
    /\ \E e \in FormEmails \ {email} : email' = e
    /\ emailResult' = "none"
    /\ UNCHANGED <<env, dom, initVars, scrollVars, menuVars, fadeVars, otherVars,
                   staggerResult>>

\* the user submits a newsletter form
Submit ==
    /\ ready
    /\ running = <<>>
    /\ \E form \in querySelectorAll(Document, "newsletter-form") :
         LET ev == RunListeners(form, SubmitListeners(form),
                                [prevented |-> FALSE, message |-> message,
                                 focused |-> inputFocused])
         IN /\ message' = ev.message
            /\ inputFocused' = ev.focused
            /\ lastSubmit' = [state |-> IF ev.prevented THEN "blocked" ELSE "sent",
                              value |-> email, before |-> message]
    /\ UNCHANGED <<env, dom, initVars, scrollVars, menuVars, fadeVars, smooths,
                   newsletters, lazies, imageVars, pureVars>>

(***************************************************************************)
(* The pure functions, applied to chosen inputs                            *)
(***************************************************************************)
GetStaggerDelay ==
    /\ \E element \in Nodes :
         staggerResult' = [element |-> element, delay |-> getStaggerDelay(element)]
    /\ UNCHANGED <<env, dom, initVars, scrollVars, menuVars, fadeVars, otherVars,
                   email, emailResult>>

\* the user types a character into the email input
TypeEmail ==
    /\ Len(email) < MaxEmailLen
    /\ \E c \in EmailChars : email' = Append(email, c)
    /\ emailResult' = "none"
    /\ UNCHANGED <<env, dom, initVars, scrollVars, menuVars, fadeVars, otherVars,
                   staggerResult>>

ValidateEmail ==
    /\ emailResult' = IF validateEmail(email) THEN "pass" ELSE "fail"
    /\ UNCHANGED <<env, dom, initVars, scrollVars, menuVars, fadeVars, otherVars,
                   staggerResult, email>>

(***************************************************************************)
(* Specifications                                                          *)
(***************************************************************************)
Next ==
    \/ DomReady
    \/ SectionLoad
    \/ \E y \in ScrollPositions : Scroll(y)
    \/ FrameStart
    \/ RunCallback
    \/ ToggleClick
    \/ LinkClick
    \/ EscapeKey
    \/ Intersection
    \/ TimerFire
    \/ LazyIntersection
    \/ TypeEmail
    \/ EditEmail
    \/ Submit

Spec == Init /\ [][Next]_vars

\* the header and the parallax under scroll events, frames and section loads
InitScroll ==
    InitWith([hasIO : {TRUE}, hasMatchMedia : {TRUE}, reducedMotion : BOOLEAN,
              nativeLazy : {TRUE}, scrollbarWidth : {15}],
             {PageDom({})}, {ClosedMarkup}, ScrollPositions, {<<>>})
NextScroll ==
    \/ DomReady
    \/ SectionLoad
    \/ \E y \in ScrollPositions : Scroll(y)
    \/ FrameStart
    \/ RunCallback
SpecScroll == InitScroll /\ [][NextScroll]_vars

\* the same between two scroll positions (the top of the page, and one with
\* the parallax element in view), with the browser starting every requested
\* animation frame and calling every callback of a frame it has started
LivePositions == {0, 2 * ScrollStep}
InitScrollLive ==
    InitWith([hasIO : {TRUE}, hasMatchMedia : {TRUE}, reducedMotion : BOOLEAN,
              nativeLazy : {TRUE}, scrollbarWidth : {15}],
             {PageDom({})}, {ClosedMarkup}, {0}, {<<>>})
NextScrollLive ==
    \/ DomReady
    \/ SectionLoad
    \/ \E y \in LivePositions : Scroll(y)
    \/ FrameStart
    \/ RunCallback
SpecScrollLive ==
    InitScrollLive /\ [][NextScrollLive]_vars /\ WF_vars(FrameStart) /\ WF_vars(RunCallback)

\* the mobile menu under clicks, the Escape key and section loads
InitMenu ==
    InitWith([hasIO : {TRUE}, hasMatchMedia : {TRUE}, reducedMotion : {FALSE},
              nativeLazy : {TRUE}, scrollbarWidth : {0, 15}],
             {PageDom({}), PageDom({5})}, {ClosedMarkup, BareMarkup}, {0}, {<<>>})
NextMenu ==
    \/ DomReady
    \/ SectionLoad
    \/ ToggleClick
    \/ LinkClick
    \/ EscapeKey
SpecMenu == InitMenu /\ [][NextMenu]_vars

\* the fade-in observers under intersections, timers and section loads
InitFade ==
    InitWith([hasIO : BOOLEAN, hasMatchMedia : {TRUE}, reducedMotion : {FALSE},
              nativeLazy : {TRUE}, scrollbarWidth : {15}],
             {PageDom({})}, {ClosedMarkup}, {0}, {<<>>})
NextFade ==
    \/ DomReady
    \/ SectionLoad
    \/ Intersection
    \/ TimerFire
SpecFade == InitFade /\ [][NextFade]_vars

\* the same, with the browser running every timeout that is due
SpecFadeLive == SpecFade /\ WF_vars(TimerFire)

\* initializeModules on every browser and on pages lacking some of the targets
InitStartup ==
    InitWith(Envs,
             {PageDom(m \cup f) : m \in SUBSET {2, 3, 4, 5, 11, 14},
                                  f \in {{}, {8, 10, 15}, {12, 18}, {8, 10, 12, 15, 18}}},
             {ClosedMarkup}, {0}, {<<>>})
NextStartup ==
    \/ DomReady
    \/ SectionLoad
SpecStartup == InitStartup /\ [][NextStartup]_vars

\* initializeModules where IntersectionObserver does not exist: pages with
\* all, some or none of the fade-in elements and with or without the lazy
\* image, whose deferred sources vary
InitNoObserver ==
    InitFull([hasIO : {FALSE}, hasMatchMedia : {TRUE}, reducedMotion : BOOLEAN,
              nativeLazy : BOOLEAN, scrollbarWidth : {15}],
             {PageDom(m \cup f) : m \in {{}, {12, 18}}, f \in {{}, {8}, {8, 10, 15}}},
             {ClosedMarkup}, {0}, {<<>>}, DeferredImages, {NoMessage})
NextNoObserver ==
    \/ DomReady
    \/ SectionLoad
SpecNoObserver == InitNoObserver /\ [][NextNoObserver]_vars

\* the lazy images with and without native lazy loading and
\* IntersectionObserver, under section loads and observer callbacks
InitLazy ==
    InitFull([hasIO : BOOLEAN, hasMatchMedia : {TRUE}, reducedMotion : {FALSE},
              nativeLazy : BOOLEAN, scrollbarWidth : {15}],
             {PageDom({})}, {ClosedMarkup}, {0}, {<<>>}, DeferredImages, {NoMessage})
NextLazy ==
    \/ DomReady
    \/ SectionLoad
    \/ LazyIntersection
SpecLazy == InitLazy /\ [][NextLazy]_vars

\* getStaggerDelay on every element of every document of StaggerDoms
InitStagger ==
    InitWith({ModernEnv}, StaggerDoms, {ClosedMarkup}, {0}, {<<>>})
SpecStagger == InitStagger /\ [][GetStaggerDelay]_vars

\* validateEmail on the specification's strings and on every short string
InitEmail ==
    InitWith({ModernEnv}, {PageDom({})}, {ClosedMarkup}, {0}, SpecEmails)
NextEmail ==
    \/ TypeEmail
    \/ ValidateEmail
SpecEmail == InitEmail /\ [][NextEmail]_vars

\* the newsletter form under edits of its input, submits and section loads; the form may
\* lack its email input or its message container
InitNewsletter ==
    InitFull({ModernEnv}, {PageDom(m) : m \in {{}, {16}, {17}}}, {ClosedMarkup}, {0},
             {<<>>}, {DeferredImage}, {NoMessage, PostedMessage})
NextNewsletter ==
    \/ DomReady
    \/ SectionLoad
    \/ EditEmail
    \/ Submit
SpecNewsletter == InitNewsletter /\ [][NextNewsletter]_vars

(***************************************************************************)
(* Properties                                                              *)
(***************************************************************************)
FadeElements == querySelectorAll(Document, "fade-in")

\* C1: once a .fade-in element has been reported intersecting, the 'visible'
\* class is scheduled for it once and added to it once, whatever intersections,
\* timers and section loads follow.
C1_VisibleAppliedOnce ==
    \A e \in FadeElements :
        reported[e] => scheduled[e] <= 1 /\ addCalls[e] <= 1

\* the DOM state openMenu of instance m leaves, and the one closeMenu leaves
OpenDom(d, m) ==
    /\ d.active
    /\ d.ariaHidden = "false"
    /\ d.ariaExpanded = "true"
    /\ d.ariaLabel = "Close menu"
    /\ d.overflow = "hidden"
    /\ d.paddingRight = <<m.scrollbarWidth>>
ClosedDom(d) ==
    /\ ~d.active
    /\ d.ariaHidden = "true"
    /\ d.ariaExpanded = "false"
    /\ d.ariaLabel = "Open menu"
    /\ d.overflow = ""
    /\ d.paddingRight = <<>>
\* menu state R is open for instance i, or closed for it, and not both
ExactlyOneState(R, i) ==
    (OpenDom(R.dom, R.menus[i]) /\ R.menus[i].isOpen)
        # (ClosedDom(R.dom) /\ ~R.menus[i].isOpen)

\* C2: in every reachable menu state and for every bound instance, openMenu
\* applied twice gives what it gives applied once, likewise closeMenu, and
\* openMenu, closeMenu and toggleMenu each leave the menu open or closed, never
\* both and never neither; the state an event leaves is one of the two as well.
C2_MenuIdempotentTwoStates ==
    /\ \A i \in DOMAIN menus :
          menus[i].bound =>
             /\ openMenu(openMenu(MenuState, i), i) = openMenu(MenuState, i)
             /\ closeMenu(closeMenu(MenuState, i), i) = closeMenu(MenuState, i)
             /\ ExactlyOneState(openMenu(MenuState, i), i)
             /\ ExactlyOneState(closeMenu(MenuState, i), i)
             /\ ExactlyOneState(toggleMenu(MenuState, i), i)
    /\ lastMenuCall.op # "none" => ExactlyOneState(MenuState, lastMenuCall.inst)

\* C2 witness: two instances have run openMenu one after the other on the same
\* overlay (one toggle click reaching both listeners) and the menu is open.
C2_Witness ==
    /\ Len(menus) >= 2
    /\ \A i \in DOMAIN menus : menus[i].bound /\ menus[i].isOpen
    /\ lastMenuCall = [op |-> "open", inst |-> Len(menus)]
    /\ OpenDom(menuDom, menus[1])

\* C3: whenever the header is hidden, the handleScroll run that last set the
\* class read a position above the one its instance had recorded before, and
\* the position it read and recorded is above the threshold.
C3_HiddenOnlyDownPastThreshold ==
    headerHidden =>
        /\ lastHandled.inst # 0
        /\ lastHandled.movedDown
        /\ headers[lastHandled.inst].lastScrollY > ScrollThreshold

\* C3 witness: the header has been hidden by a handled scroll step.
C3_Witness ==
    /\ headerHidden
    /\ lastHandled.inst # 0
    /\ running = <<>>

\* C4 as claimed: after a scroll event to a lower position has been handled
\* (no frame callback is pending any more), the header is not hidden.
C4_ScrollUpShowsHeader ==
    (scrollDir = "up" /\ rafQueue = <<>> /\ running = <<>>) => ~headerHidden

\* C4 amended: a handleScroll run that reads a position not above the one its
\* instance recorded last leaves the header not hidden, at any position.
C4_HandledUpShowsHeader ==
    (lastHandled.inst # 0 /\ ~lastHandled.movedDown) => ~headerHidden

\* C4 witness: a handled step that did not move down, at a position above the
\* threshold, has left the header shown.
C4_Witness ==
    /\ lastHandled.inst # 0
    /\ ~lastHandled.movedDown
    /\ headers[lastHandled.inst].lastScrollY > ScrollThreshold
    /\ ~headerHidden

\* C5: in one animation frame handleScroll runs at most once and updateParallax
\* runs at most once.
C5_OncePerFrame ==
    frameRuns.header <= 1 /\ frameRuns.parallax <= 1

\* C6: when a constructor throws inside initializeModules, every other module
\* has been constructed by that call and the error is logged.
C6_FailureIsolated ==
    lastInit.threw # "none" =>
        /\ lastInit.constructed = Modules \ {lastInit.threw}
        /\ lastInit.logged

\* listeners and observers attached to node n by the instances constructed so far
Count(seq, P(_)) == Cardinality({i \in DOMAIN seq : P(seq[i])})
Attached(n) ==
    LET IsToggle(m) == m.bound /\ m.toggle = n
        IsLink(m) == n \in m.links
        IsForm(m) == n \in m.forms
        IsObserved(m) == n \in m.observed
    IN Count(menus, IsToggle) + Count(menus, IsLink) + Count(smooths, IsLink)
       + Count(newsletters, IsForm) + Count(fades, IsObserved)
       + Count(lazies, IsObserved)

\* C7: an initializeModules call gives a listener or an observer only to nodes
\* inside the scope it was called with.
C7_OnlyScopeTouched ==
    [][\A n \in Nodes :
          Attached(n)' > Attached(n) =>
              (lastInit'.scope = Document \/ lastInit'.scope \in ChainSet(n))]_vars

\* the grid container of e and e's position in it: the index among the
\* container's children of the child that is e or contains e
GridOf(e) == closest(e, GridContainers)
ItemIndex(e) ==
    LET c == Chain(e)
        item == c[CHOOSE i \in 1..Len(c) : dom.parent[c[i]] = GridOf(e)]
    IN indexOf(children(GridOf(e)), item)
InGrid(e) == GridOf(e) # Document /\ GridOf(e) # e

\* C8: every delay is >= 0 and a multiple of 100, and of two elements of one
\* grid container the one at the larger position never gets the smaller delay.
C8_DelayMonotone ==
    /\ staggerResult.delay >= 0
    /\ staggerResult.delay % StaggerStep = 0
    /\ \A e1 \in Nodes :
          LET e2 == staggerResult.element
          IN (e2 # Document /\ InGrid(e1) /\ InGrid(e2) /\ GridOf(e1) = GridOf(e2)
                 /\ ItemIndex(e1) < ItemIndex(e2))
             => getStaggerDelay(e1) <= staggerResult.delay

\* C9: the delay computed for an element of a grid container is 100 times its
\* position in the container, and 0 for an element of no grid container.
C9_DelayIsIndexTimes100 ==
    staggerResult.element # Document =>
        staggerResult.delay =
            IF InGrid(staggerResult.element)
            THEN Max(0, ItemIndex(staggerResult.element) * StaggerStep)
            ELSE 0

\* a non-empty part, one '@', a non-empty part, a '.', a non-empty part, with
\* no whitespace and no '@' inside the parts
WellFormed(s) ==
    \E i, j \in 1..Len(s) :
        /\ 1 < i
        /\ i + 1 < j
        /\ j < Len(s)
        /\ s[i] = "@"
        /\ s[j] = "."
        /\ \A k \in 1..Len(s) : k # i => (s[k] \notin Whitespace /\ s[k] # "@")

\* C10: validateEmail passes "a@b.com", fails "a@b", "a b@c.com" and "", and
\* passes a string exactly when it is well formed in the sense above.
C10_ValidateEmail ==
    emailResult # "none" =>
        /\ (emailResult = "pass") = WellFormed(email)
        /\ email = <<"a", "@", "b", ".", "c", "o", "m">> => emailResult = "pass"
        /\ email \in { <<"a", "@", "b">>,
                       <<"a", " ", "b", "@", "c", ".", "c", "o", "m">>,
                       <<>> } => emailResult = "fail"

\* C10 witness: "a@b.com" has been validated and passed.
C10_Witness ==
    /\ email = <<"a", "@", "b", ".", "c", "o", "m">>
    /\ emailResult = "pass"

\* the email input and the message container of the page's newsletter form
FormInput == querySelector(14, "type=email")
FormMessage == querySelector(14, "newsletter-form__message")

\* the value without the white space at its two ends
Trimmed(v) ==
    LET inside == {i \in DOMAIN v : v[i] \notin Whitespace}
    IN IF inside = {} THEN <<>>
       ELSE SubSeq(v, Min(inside), CHOOSE i \in inside : \A j \in inside : j <= i)

\* the last submit was blocked exactly if the trimmed value is not well formed,
\* a blocked submit left the input focused, an unblocked one the message as it was
BlockedIffInvalid ==
    /\ lastSubmit.state = "blocked" <=> ~WellFormed(Trimmed(lastSubmit.value))
    /\ lastSubmit.state = "blocked" => inputFocused
    /\ lastSubmit.state = "sent" => message = lastSubmit.before

ErrorShown ==
    message.text = ErrorText /\ {"visible", "error"} \subseteq message.cls
        /\ "success" \notin message.cls

\* C11 as stated: after every submit of a form with an email input, the submit
\* was blocked (default prevented, error message shown, input focused) exactly
\* if the trimmed value fails validation, and a valid submit left the message
\* container unchanged
C11_BlockedShowsMessage ==
    (lastSubmit.state # "none" /\ FormInput # Document) =>
        /\ BlockedIffInvalid
        /\ lastSubmit.state = "blocked" => ErrorShown

\* C11 amended: the error message is shown by a blocked submit when the form
\* has a message container; default prevented and input focused as stated
C11_BlockedIffInvalid ==
    (lastSubmit.state # "none" /\ FormInput # Document) =>
        /\ BlockedIffInvalid
        /\ (lastSubmit.state = "blocked" /\ FormMessage # Document) => ErrorShown

\* after a section load, with two listeners on the form, a submit of a value
\* with white space around it was blocked and replaced the earlier message
C11_Witness ==
    /\ FormInput # Document
    /\ FormMessage # Document
    /\ Len(newsletters) >= 2
    /\ lastSubmit.state = "blocked"
    /\ Trimmed(lastSubmit.value) # lastSubmit.value
    /\ lastSubmit.before = PostedMessage
    /\ ErrorShown

\* the selection of module m, made under `scope`, finds none of its targets
TargetsMissing(m, scope) ==
    CASE m = "HeaderScroll" -> querySelector(Document, "site-header") = Document
      [] m = "MobileMenu" ->
            \/ querySelector(Document, "site-header__menu-toggle") = Document
            \/ querySelector(Document, "mobile-nav-overlay") = Document
      [] m = "FadeInObserver" -> querySelectorAll(scope, "fade-in") = {}
      [] m = "ParallaxEffect" -> querySelectorAll(Document, "parallax-element") = {}
      [] m = "SmoothScroll" -> querySelectorAll(Document, "href#") = {}
      [] m = "NewsletterForm" -> querySelectorAll(Document, "newsletter-form") = {}
      [] m = "LazyLoadImages" -> querySelectorAll(Document, "loading=lazy") = {}

\* this step's construction of m attached no listener and no observer and
\* left the DOM state m writes as it was
Quiet(m) ==
    CASE m = "HeaderScroll" ->
            ~headers'[Len(headers')].listening /\ headerHidden' = headerHidden
      [] m = "MobileMenu" ->
            /\ ~menus'[Len(menus')].bound
            /\ menus'[Len(menus')].links = {}
            /\ menuDom' = menuDom
      [] m = "FadeInObserver" ->
            /\ fades'[Len(fades')].observed = {}
            /\ visible' = visible
            /\ timers' = timers
      [] m = "ParallaxEffect" ->
            /\ Len(parallaxes') > Len(parallaxes) => ~parallaxes'[Len(parallaxes')].listening
            /\ transform' = transform
      [] m = "SmoothScroll" ->
            Len(smooths') > Len(smooths) => smooths'[Len(smooths')].links = {}
      [] m = "NewsletterForm" ->
            /\ Len(newsletters') > Len(newsletters) => newsletters'[Len(newsletters')].forms = {}
            /\ message' = message
      [] m = "LazyLoadImages" ->
            /\ Len(lazies') > Len(lazies) => lazies'[Len(lazies')].observed = {}
            /\ imgs' = imgs

\* C12: a component whose targets are not found is a no-op: the
\* initializeModules call that constructs it attaches no listener and no
\* observer for it, changes none of its DOM state, and gets no error from it.
C12_NoOpWhenTargetsMissing ==
    [][inits' = inits + 1 =>
          \A m \in lastInit'.constructed \cup {lastInit'.threw} :
              (m \in Modules /\ TargetsMissing(m, lastInit'.scope)) =>
                  (Quiet(m) /\ lastInit'.threw # m)]_vars

\* image `after` is image `before` with its deferred sources made the real ones
Loaded(before, after) ==
    /\ after.src = (IF before.dataSrc # "" THEN before.dataSrc ELSE before.src)
    /\ after.srcset = (IF before.dataSrcset # "" THEN before.dataSrcset ELSE before.srcset)
    /\ after.dataSrc = ""
    /\ after.dataSrcset = ""

\* C13: without IntersectionObserver the end state is applied by the
\* construction itself: the initializeModules step leaves every .fade-in
\* element selected by its FadeInObserver visible, with no timer set and
\* nothing observed, and, where the lazy-image fallback runs (no native lazy
\* loading), every selected image loaded, with nothing observed.
C13_FallbackAppliesEndState ==
    [][(inits' = inits + 1 /\ ~env.hasIO) =>
          /\ \A e \in querySelectorAll(lastInit'.scope, "fade-in") : visible'[e]
          /\ fades'[Len(fades')].observed = {}
          /\ timers' = timers /\ scheduled' = scheduled
          /\ ("LazyLoadImages" \in lastInit'.constructed /\ ~env.nativeLazy) =>
                /\ \A i \in querySelectorAll(Document, "loading=lazy") :
                       Loaded(imgs[i], imgs'[i])
                /\ lazies'[Len(lazies')].observed = {}]_vars

\* a construction without IntersectionObserver has made the fade-in elements
\* visible and given the lazy image its deferred sources
C13_Witness ==
    /\ ~env.hasIO /\ ~env.nativeLazy
    /\ inits >= 1
    /\ fades[1].fallback /\ lazies[1].fallback
    /\ \A e \in {10, 15} : visible[e] /\ timers[e] = 0
    /\ imgs[12].src = "photo.jpg" /\ imgs[12].srcset = "photo.jpg 2x"

\* C15: with native lazy loading no image attribute is ever written; an
\* intersecting entry makes its observer load the image in that callback and
\* stop observing it, so each observer loads an image once, at its first
\* intersection; and loadImage is idempotent: a call leaves no data-src and no
\* data-srcset, and a further call on the image, such as the one made by a
\* second observer of the same image, changes nothing.
C15_LazyLoading ==
    [][/\ env.nativeLazy => imgs' = imgs
       /\ lastLoad' # lastLoad =>
            LET o == lastLoad'.inst
                t == lastLoad'.target
            IN /\ t \in lazies[o].observed
               /\ t \notin lazies'[o].observed
               /\ Loaded(imgs[t], imgs'[t])
               /\ imgs'[t].dataSrc = "" /\ imgs'[t].dataSrcset = ""
               /\ lastLoad.target = t => imgs' = imgs
       /\ imgs' # imgs =>
            \/ lastLoad' # lastLoad
            \/ inits' = inits + 1 /\ ~env.hasIO]_vars

\* two observers have each loaded the image at their first intersection; the
\* second load found the sources already in place
C15_Witness ==
    /\ ~env.nativeLazy /\ env.hasIO
    /\ Len(lazies) >= 2
    /\ \A o \in DOMAIN lazies : 12 \in lazies[o].images /\ 12 \notin lazies[o].observed
    /\ lastLoad.target = 12
    /\ lastLoad.before = imgs[12]
    /\ imgs[12].src = "photo.jpg" /\ imgs[12].srcset = "photo.jpg 2x"

\* the element's box and the window's viewport have a point in common
Overlaps(element) ==
    \E y \in Layout.top..(Layout.top + Layout.height - 1) :
        y \in scrollY..(scrollY + Layout.viewport - 1)

\* C14: where reduced motion is preferred no step changes any transform; where
\* it is not, a step changes the transform only of a parallax element (or of
\* its media child) that overlaps the viewport at that time.
C14_ParallaxRespectsReducedMotion ==
    [][/\ env.reducedMotion => transform' = transform
       /\ \A n \in Nodes :
            transform'[n] # transform[n] =>
                \E e \in querySelectorAll(Document, "parallax-element") :
                    /\ n \in {e, ParallaxTarget(e)}
                    /\ Overlaps(e)]_vars

\* the image of the parallax element carries a transform written while the
\* element was in view, and a later frame, run with the element out of view
\* after a section load, left it alone
C14_Witness ==
    /\ ~env.reducedMotion
    /\ Len(parallaxes) >= 2
    /\ transform[12] # <<>>
    /\ ~Overlaps(11)
    /\ frameRuns.parallax >= 1
    /\ running = <<>>

\* C16: the overlay has class 'active' exactly if its aria-hidden is 'false',
\* exactly if the toggle's aria-expanded is 'true', exactly if its aria-label is
\* 'Close menu', and exactly if the body's overflow is 'hidden'; and once a
\* menu method has run, an overlay without 'active' goes with the four closed
\* values together.
C16_MenuDomConsistent ==
    /\ menuDom.active <=> menuDom.ariaHidden = "false"
    /\ menuDom.active <=> menuDom.ariaExpanded = "true"
    /\ menuDom.active <=> menuDom.ariaLabel = "Close menu"
    /\ menuDom.active <=> menuDom.overflow = "hidden"
    /\ (lastMenuCall.op # "none" /\ ~menuDom.active) =>
          /\ menuDom.ariaHidden = "true"
          /\ menuDom.ariaExpanded = "false"
          /\ menuDom.ariaLabel = "Open menu"
          /\ menuDom.overflow = ""

\* the menu was closed by one instance while another instance, made by a
\* section load, still holds isOpen: the DOM is all closed
C16_Witness ==
    /\ Len(menus) >= 2
    /\ lastMenuCall.op = "close"
    /\ ~menuDom.active /\ menuDom.overflow = ""
    /\ \E i \in DOMAIN menus : menus[i].bound /\ menus[i].isOpen

\* every instance with listeners holds isOpen exactly if the overlay is active
FlagsAgree == \A i \in DOMAIN menus : menus[i].bound => (menus[i].isOpen <=> menuDom.active)

\* C17: a click on the toggle flips the overlay between open and closed, and
\* after every step each live MobileMenu instance's isOpen agrees with the
\* overlay's 'active' class.
C17_ToggleFlipsFlagsAgree ==
    [][/\ ToggleClick => (menuDom'.active # menuDom.active)
       /\ FlagsAgree']_vars

\* the page's .fade-in elements
FadeNodes == {n \in PageNodes : "fade-in" \in PageCls[n]}

\* C18: an element reported intersecting to an observer gets 'visible' in the
\* end (when its timeout runs, the element being unobserved by then), and no
\* step takes 'visible' from an element that has it.
C18_ReportedBecomesVisibleForGood ==
    /\ \A e \in FadeNodes : reported[e] ~> visible[e]
    /\ [][\A e \in FadeNodes : visible[e] => visible'[e]]_vars

\* a grid element was reported, unobserved, and, its timeout having run,
\* is visible
C18_Witness ==
    /\ reported[10] /\ visible[10]
    /\ timers[10] = 0 /\ addCalls[10] >= 1
    /\ 10 \in fades[1].elements /\ 10 \notin fades[1].observed

\* the animation-frame callbacks of listener c that have been requested and
\* not yet called
Pending(c) ==
    LET waiting == rafQueue \o running
    IN Cardinality({k \in DOMAIN waiting : waiting[k] = c})

\* C19: an instance's ticking flag is set exactly while one animation-frame
\* callback of that instance is pending, no instance ever has two pending, and
\* a set flag is always reset in the end (by the frame's callback), so that the
\* instance's listener asks for a frame again at the next scroll event.
C19_TickingIsOnePendingFrame ==
    /\ [](\A k \in DOMAIN ScrollListeners :
            LET c == ScrollListeners[k]
            IN (c.kind = "header" \/ c.inst <= Len(parallaxes)) =>
                  /\ Pending(c) <= 1
                  /\ Ticking(c) <=> Pending(c) = 1)
    /\ \A i \in 1..MaxInits :
          /\ (i <= Len(headers) /\ headers[i].ticking)
                ~> (i <= Len(headers) /\ ~headers[i].ticking)
          /\ (i <= Len(parallaxes) /\ parallaxes[i].ticking)
                ~> (i <= Len(parallaxes) /\ ~parallaxes[i].ticking)

\* after a frame has run its callbacks a scroll event has arrived and every
\* listening instance has asked for the next frame
C19_Witness ==
    /\ Len(headers) >= 2 /\ Len(parallaxes) >= 2
    /\ lastHandled.inst >= 1
    /\ running = <<>>
    /\ \A i \in DOMAIN headers : headers[i].ticking
    /\ \A i \in DOMAIN parallaxes : parallaxes[i].ticking
    /\ Len(rafQueue) = Len(headers) + Len(parallaxes)
====
